---- MODULE Spec2Model ----
(***************************************************************************)
(* A model of the round-based LLM tournament of llm_competition.py         *)
(* (LLMCompetition) and of the judge-response parser and score store of    *)
(* the online system in gradio_app.py.                                     *)
(*                                                                         *)
(* The specifications:                                                     *)
(*   Spec       a whole run of LLMCompetition.run_competition, with the    *)
(*              concurrent answer collection of each round interleaved;    *)
(*   SpecFair   Spec with every pending step eventually taken;             *)
(*   SpecRerun  run_competition invoked twice on one object;               *)
(*   SpecQuestions  LLMCompetition.generate_questions;                     *)
(*   SpecOnline interleaved calls of                                       *)
(*              OnlineCompetitionSystem.process_question;                  *)
(*   SpecScore  LLMCompetition._update_scores applied to one ranking and   *)
(*              one ledger drawn from bounded sets;                        *)
(*   SpecAnswer LLMCompetition._collect_answers for one round, with API    *)
(*              errors and timeouts of the provider calls;                 *)
(*   SpecParse  OnlineCompetitionSystem._parse_judge_response applied to   *)
(*              one response text drawn from a bounded set, followed by    *)
(*              OnlineCompetitionDB.update_model_scores.                   *)
(***************************************************************************)
EXTENDS Integers, Sequences, FiniteSets, TLC

VARIABLES
    models,        \* self.models: the participants' names, in list order
    min_models,    \* config['competition_settings']['min_models']
    scoring,       \* config['competition_settings']['scoring']
    questions,     \* self.questions: the question ids, in supplied order
    pc,            \* where run_competition stands
    q_idx,         \* index of the question of the round in progress
    judge_idx,     \* index of the judge of the round in progress
    tasks,         \* the gather of the round: one task per contestant
    done_order,    \* the order in which the round's tasks completed
    answers,       \* the list _collect_answers returned for the round
    last_resp,     \* the judge's raw response of the last judged round
    faults,        \* rounds so far whose judge gave no well-formed ranking
    results,       \* self.results
    final_scores,  \* self.final_scores, as its items in insertion order
    final_result,  \* what run_competition returned
    judgment,      \* SpecScore: the JudgmentResult.rankings being applied
    prev_scores,   \* SpecScore: the ledger before the application
    p_names,       \* SpecParse: model_names
    p_response,    \* SpecParse: response, as its lines
    p_out,         \* SpecParse: what _parse_judge_response returned
    db_scores,     \* the rows of the tables model_scores and score_details
    answer_calls,  \* provider calls issued for contestants' answers in the run
    judge_calls,   \* provider calls issued for judges' rankings in the run
    settings,      \* config['competition_settings']['question_generation']
    current_judge_index,  \* OnlineCompetitionSystem.current_judge_index
    calls,         \* the calls of process_question, in the order they began
    qa_records     \* the number of rows of table qa_records

vars == <<models, min_models, scoring, questions, pc, q_idx, judge_idx, tasks,
          done_order, answers, last_resp, faults, results, final_scores, final_result,
          judgment, prev_scores, p_names, p_response, p_out,
          db_scores, answer_calls, judge_calls, settings, current_judge_index,
          calls, qa_records>>

cfgVars == <<models, min_models, scoring, questions>>
scoreVars == <<judgment, prev_scores>>
parseVars == <<p_names, p_response, p_out, db_scores>>
callVars == <<answer_calls, judge_calls>>
onlineVars == <<current_judge_index, calls, qa_records>>

(***************************************************************************)
(* Bounds of the model.                                                    *)
(***************************************************************************)
\* A run of Spec has at most this many rounds (questions times participants).
MaxRounds == 4
\* The longest question list of a run of Spec.
MaxQuestions == 2
\* The longest ranking handed to _update_scores in SpecScore.
MaxEntries == 4
\* The most lines of a judge response in SpecParse.
MaxLines == 3
\* The most rounds of a run of Spec in which the judge's call fails or its
\* response is not a ranking of exactly the round's contestants with numbers
\* as scores.
MaxFaults == 1
\* The most calls of process_question in SpecOnline, and the most of them
\* that are in progress at once.
MaxCalls == 4
MaxOpen == 2
\* The most questions the settings ask of the preset bank, and the most
\* items of a generator's JSON array, in SpecQuestions.
MaxCount == 2
MaxGenerated == 2

(***************************************************************************)
(* Program constants.                                                      *)
(***************************************************************************)
\* random.randint(5, 8) of the fallback ranking
FallbackScoreLo == 5
FallbackScoreHi == 8

(***************************************************************************)
(* Generic helpers.                                                        *)
(***************************************************************************)
Range(s) == {s[i] : i \in DOMAIN s}

SeqsUpTo(S, n) == UNION {[1..k -> S] : k \in 0..n}

Perms(n) == {p \in [1..n -> 1..n] : \A i, j \in 1..n : i # j => p[i] # p[j]}

Count(s, x) == Cardinality({i \in DOMAIN s : s[i] = x})

(***************************************************************************)
(* Values.                                                                 *)
(***************************************************************************)
\* A JSON score: a number, or a value of another type (a string).
IntScore(v) == [t |-> "int", v |-> v]
StrScore == [t |-> "str", v |-> 0]

\* A name no participant has, and a model_name that is a JSON list.
UnknownName == "X"
UnhashableName == "<list>"

\* The text of an answer or of a response.
Text(body) == [kind |-> "text", who |-> "", body |-> body]
\* A provider call's outcome: the text returned, or the error raised.
Returned(body) == [ok |-> TRUE, body |-> body]
Failed(err) == [ok |-> FALSE, body |-> err]

(***************************************************************************)
(* sorted(..., key=..., reverse=True): a stable sort, descending by key.   *)
(* The items are records [e |-> element, k |-> integer key].               *)
(***************************************************************************)
RECURSIVE InsertDesc(_, _)
InsertDesc(s, x) ==
    IF s = <<>> THEN <<x>>
    ELSE IF s[1].k >= x.k THEN <<s[1]>> \o InsertDesc(Tail(s), x)
    ELSE <<x>> \o s

RECURSIVE SortedDesc(_)
SortedDesc(s) ==
    IF s = <<>> THEN <<>>
    ELSE InsertDesc(SortedDesc(SubSeq(s, 1, Len(s) - 1)), s[Len(s)])

Elements(s) == [i \in DOMAIN s |-> s[i].e]

(***************************************************************************)
(* The score ledger: self.final_scores, a defaultdict(int), kept as the    *)
(* sequence of its items <<name, total>> in insertion order.               *)
(***************************************************************************)
Has(led, n) == \E i \in DOMAIN led : led[i][1] = n

Total(led, n) ==
    IF Has(led, n) THEN led[CHOOSE i \in DOMAIN led : led[i][1] = n][2] ELSE 0

\* AddScore with "=" for "+=": the entry is overwritten by the round's points.
AddScoreAssigns(led, n, points) ==
    IF \E i \in DOMAIN led : led[i][1] = n
    THEN [i \in DOMAIN led |-> IF led[i][1] = n THEN <<n, points>> ELSE led[i]]
    ELSE Append(led, <<n, points>>)

\* self.final_scores[model_name] += points
AddScore(led, n, points) ==
    IF Has(led, n)
    THEN [i \in DOMAIN led |->
            IF led[i][1] = n THEN <<n, led[i][2] + points>> ELSE led[i]]
    ELSE Append(led, <<n, points>>)

(***************************************************************************)
(* LLMCompetition._update_scores                                          *)
(***************************************************************************)
\* Two scores that sorted can compare: Python raises TypeError for a number
\* against a string.
Comparable(a, b) == a.t = b.t

\* sorted raises: any sort has to compare across the types present.
SortRaises(rankings) ==
    \E i, j \in DOMAIN rankings :
        i # j /\ ~Comparable(rankings[i][2], rankings[j][2])

\* SortedRankings without reverse=True: the lowest score comes first.
SortedRankingsAscending(rankings) ==
    Elements(SortedDesc([i \in DOMAIN rankings |->
                            [e |-> rankings[i], k |-> 0 - rankings[i][2].v]]))

\* SortedRankings as an ascending sort reversed (sorted(...)[::-1]): items
\* with equal scores come out in the reverse of the order of the ranking.
SortedRankingsTiesReversed(rankings) ==
    LET asc == SortedRankingsAscending(rankings)
    IN [i \in DOMAIN asc |-> asc[Len(asc) + 1 - i]]

\* sorted(judgment.rankings, key=lambda x: x[1], reverse=True)
SortedRankings(rankings) ==
    Elements(SortedDesc([i \in DOMAIN rankings |->
                            [e |-> rankings[i], k |-> rankings[i][2].v]]))

\* PlacePoints reading enumerate's rank as counted from 1: the first item
\* falls through to other_place and every later item moves up one place.
PlacePointsFromOne(table, rank) ==
    IF rank = 1 THEN table.first_place
    ELSE IF rank = 2 THEN table.second_place
    ELSE IF rank = 3 THEN table.third_place
    ELSE table.other_place

\* The points of enumerate's rank (0 for the first item).
PlacePoints(table, rank) ==
    IF rank = 0 THEN table.first_place
    ELSE IF rank = 1 THEN table.second_place
    ELSE IF rank = 2 THEN table.third_place
    ELSE table.other_place

\* The loop over sorted_rankings from item i on; a model_name that is not
\* hashable raises TypeError at its item, after the items before it landed.
RECURSIVE ApplyFrom(_, _, _, _)
ApplyFrom(led, sorted, i, table) ==
    IF i > Len(sorted) THEN [scores |-> led, raised |-> FALSE]
    ELSE IF sorted[i][1] = UnhashableName THEN [scores |-> led, raised |-> TRUE]
    ELSE ApplyFrom(AddScore(led, sorted[i][1], PlacePoints(table, i - 1)),
                   sorted, i + 1, table)

UpdateScores(led, rankings, table) ==
    IF SortRaises(rankings) THEN [scores |-> led, raised |-> TRUE]
    ELSE ApplyFrom(led, SortedRankings(rankings), 1, table)

(***************************************************************************)
(* LLMCompetition._generate_final_result                                   *)
(***************************************************************************)
\* FinalRankings with the reversal done after the sort (sorted(...)[::-1]
\* of an ascending sort): equal totals come out in reverse insertion order.
FinalRankingsReversed(led) ==
    LET asc == Elements(SortedDesc([i \in DOMAIN led |->
                                      [e |-> led[i], k |-> 0 - led[i][2]]]))
    IN [i \in DOMAIN asc |-> asc[Len(asc) + 1 - i]]

\* sorted(self.final_scores.items(), key=lambda x: x[1], reverse=True)
FinalRankings(led) ==
    Elements(SortedDesc([i \in DOMAIN led |-> [e |-> led[i], k |-> led[i][2]]]))

GenerateFinalResult(led, qs, res) ==
    [error |-> FALSE, final_rankings |-> FinalRankings(led),
     total_questions |-> Len(qs),
     total_rounds |-> Len(res),
     detailed_results |-> res]

NoResult ==
    [error |-> FALSE, final_rankings |-> <<>>, total_questions |-> 0, total_rounds |-> 0,
     detailed_results |-> <<>>]

(***************************************************************************)
(* Provider calls and answer collection.                                   *)
(***************************************************************************)
\* CallModel with a fixed apology that leaves out str(e).
CallModelFixedApology(model, outcome) ==
    IF outcome.ok THEN Text(outcome.body)
    ELSE [kind |-> "apology", who |-> model, body |-> ""]

\* LLMCompetition._call_model: the provider's text, or, when the client
\* raises, an apology text naming the model and the error.
CallModel(model, outcome) ==
    IF outcome.ok THEN Text(outcome.body)
    ELSE [kind |-> "apology", who |-> model, body |-> outcome.body]

\* LLMCompetition._get_model_answer: the task's result.  It re-raises what
\* _call_model raises, and _call_model raises nothing.
GetModelAnswer(model, outcome) ==
    [raised |-> FALSE,
     answer |-> [model_name |-> model, content |-> CallModel(model, outcome)]]

\* The default answer of _collect_answers for a task that raised.
DefaultAnswer(model) ==
    [model_name |-> model,
     content |-> [kind |-> "default", who |-> "", body |-> ""]]

\* contestants = [m for i, m in enumerate(self.models) if i != judge_idx]
RECURSIVE Without(_, _)
Without(ms, j) ==
    IF ms = <<>> THEN <<>>
    ELSE IF j = 1 THEN Tail(ms)
    ELSE <<ms[1]>> \o Without(Tail(ms), j - 1)

\* Contestants leaving out the participant after the judge (enumerate's
\* index compared with a judge index counted from 1).
ContestantsSkipNext(ms, j) == Without(ms, (j % Len(ms)) + 1)

Contestants(ms, j) == Without(ms, j)

\* OnlineCompetitionSystem.get_participants:
\* [model for model in self.models if model.name != judge.name]
GetParticipants(ms, judge) ==
    LET NotJudge(m) == m # judge
    IN SelectSeq(ms, NotJudge)

\* A task of asyncio.gather: running, or done with its result.
Running == [st |-> "running", outcome |-> Failed(""), raised |-> FALSE,
            answer |-> DefaultAnswer("")]

LaunchTasks(contestants) == [i \in DOMAIN contestants |-> Running]

\* CollectAnswers taking the results as they complete (asyncio.as_completed
\* for asyncio.gather).
CollectAnswersAsCompleted(contestants, ts, order) ==
    [k \in DOMAIN order |-> ts[order[k]].answer]

\* CollectAnswers keeping only the answers of the calls that succeeded.
CollectAnswersDropsFailed(contestants, ts, order) ==
    LET all == [i \in DOMAIN contestants |-> ts[i].answer]
        Ok(a) == a.content.kind = "text"
    IN SelectSeq(all, Ok)

\* _collect_answers after the gather: the results by position, a raised
\* task replaced by the default answer.
CollectAnswers(contestants, ts, order) ==
    [i \in DOMAIN contestants |->
        IF ts[i].raised THEN DefaultAnswer(contestants[i]) ELSE ts[i].answer]

(***************************************************************************)
(* LLMCompetition._judge_answers                                           *)
(***************************************************************************)
\* The judge's response: JSON holding rankings and reasoning, any other
\* text (json.loads or a key lookup raises), or _call_model's apology.
JsonResponse(entries) ==
    [kind |-> "json", who |-> "", rankings |-> entries]
GarbageResponse == [kind |-> "garbage", who |-> "", rankings |-> <<>>]
ApologyResponse(judge) == [kind |-> "apology", who |-> judge, rankings |-> <<>>]
NoResponse == [kind |-> "none", who |-> "", rankings |-> <<>>]

\* The numbers a judge declares as scores.
JudgeScores == {IntScore(7), IntScore(9)}

\* The items a judge may declare: a participant's or an unknown name with a
\* number, a participant's name with a string as score, a list as name.
DeclaredEntries(ms) ==
    [model_name : Range(ms) \cup {UnknownName}, score : JudgeScores]
    \cup [model_name : Range(ms), score : {StrScore}]
    \cup [model_name : {UnhashableName}, score : {IntScore(7)}]

\* The rankings lists a judge may declare for n answers.
DeclaredRankings(ms, n) == SeqsUpTo(DeclaredEntries(ms), n)

FallbackReasoning == "fallback"
DeclaredReasoning == "declared"

\* FallbackRankings without the shuffle and with one fixed score.
FallbackRankingsFixed(ans, perm, rnd) ==
    [i \in DOMAIN ans |-> <<ans[i].model_name, IntScore(FallbackScoreLo)>>]

\* The fallback: random.shuffle(answers), then random.randint(5, 8) each.
FallbackRankings(ans, perm, rnd) ==
    [i \in DOMAIN ans |-> <<ans[perm[i]].model_name, IntScore(rnd[i])>>]

\* The answers the judge's prompt lists: "答案 i (来自 model_name): content".
JudgePrompt(ans) == [i \in DOMAIN ans |-> <<ans[i].model_name, ans[i].content>>]

\* The JudgmentResult built from the judge's response.
JudgeAnswers(qid, ans, judge, resp, perm, rnd) ==
    IF resp.kind = "json"
    THEN [question_id |-> qid, judge_model |-> judge,
          rankings |-> [i \in DOMAIN resp.rankings |->
                          <<resp.rankings[i].model_name, resp.rankings[i].score>>],
          reasoning |-> DeclaredReasoning]
    ELSE [question_id |-> qid, judge_model |-> judge,
          rankings |-> FallbackRankings(ans, perm, rnd),
          reasoning |-> FallbackReasoning]


(***************************************************************************)
(* The online system (gradio_app.py): a judge's free-text response is a    *)
(* sequence of lines, a line a sequence of tokens.  A token is a run of    *)
(* whitespace, a marker, a digit, a contestant's name or other text.       *)
(***************************************************************************)
Space == " "
RankMarkerWide == "<rank-marker-fullwidth-colon>"
RankMarker == "<rank-marker-colon>"
ReasonMarkerWide == "<reason-marker-fullwidth-colon>"
ReasonMarker == "<reason-marker-colon>"
Ordinal == "<ordinal>"
Digits == {"1", "2"}

\* A str response, or the None a provider's JSON may hold as content.
StrResponse(lines) == [none |-> FALSE, lines |-> lines]
NoneResponse == [none |-> TRUE, lines |-> <<>>]

Blank(line) == \A i \in DOMAIN line : line[i] = Space

RECURSIVE LStrip(_)
LStrip(line) ==
    IF line # <<>> /\ Head(line) = Space THEN LStrip(Tail(line)) ELSE line

RECURSIVE RStrip(_)
RStrip(line) ==
    IF line # <<>> /\ line[Len(line)] = Space
    THEN RStrip(SubSeq(line, 1, Len(line) - 1))
    ELSE line

\* line.strip()
StripLine(line) == RStrip(LStrip(line))

RECURSIVE DropBlankHead(_)
DropBlankHead(lines) ==
    IF lines # <<>> /\ Blank(Head(lines)) THEN DropBlankHead(Tail(lines)) ELSE lines

RECURSIVE DropBlankTail(_)
DropBlankTail(lines) ==
    IF lines # <<>> /\ Blank(lines[Len(lines)])
    THEN DropBlankTail(SubSeq(lines, 1, Len(lines) - 1))
    ELSE lines

\* text.strip().split('\n'): the whitespace (newlines included) at both ends
\* goes; the empty text splits into one empty line.
StripSplit(lines) ==
    LET kept == DropBlankTail(DropBlankHead(lines))
    IN IF kept = <<>> THEN << <<>> >>
       ELSE [i \in DOMAIN kept |->
               LET l == IF i = 1 THEN LStrip(kept[i]) ELSE kept[i]
               IN IF i = Len(kept) THEN RStrip(l) ELSE l]

\* marker in line
Contains(line, token) == \E i \in DOMAIN line : line[i] = token

\* line and (line[0].isdigit() or line.startswith(ordinal))
StartsRankLine(line) ==
    line # <<>> /\ (line[1] \in Digits \/ line[1] = Ordinal)

\* for model_name in model_names: if model_name in line: ...; break
MatchedNames(model_names, line) ==
    {i \in DOMAIN model_names : Contains(line, model_names[i])}

FirstMatch(model_names, line) ==
    LET m == MatchedNames(model_names, line)
    IN model_names[CHOOSE i \in m : \A k \in m : i <= k]

\* ScanFrom without the test for the rankings marker: a marked line is
\* treated like any other line.
RECURSIVE ScanFromKeepsMarked(_, _, _, _)
ScanFromKeepsMarked(lines, i, model_names, rankings) ==
    IF i > Len(lines) THEN [rankings |-> rankings, reasoning_start |-> 0 - 1]
    ELSE LET line == StripLine(lines[i])
         IN IF Contains(line, ReasonMarkerWide) \/ Contains(line, ReasonMarker)
            THEN [rankings |-> rankings, reasoning_start |-> i - 1]
            ELSE IF StartsRankLine(line) /\ MatchedNames(model_names, line) # {}
            THEN ScanFromKeepsMarked(lines, i + 1, model_names,
                          Append(rankings, <<FirstMatch(model_names, line),
                                             Len(rankings) + 1>>))
            ELSE ScanFromKeepsMarked(lines, i + 1, model_names, rankings)

\* The scan over enumerate(lines) from line i (counted from 1) on; the
\* reasoning_start it leaves is Python's index, counted from 0.
RECURSIVE ScanFrom(_, _, _, _)
ScanFrom(lines, i, model_names, rankings) ==
    IF i > Len(lines) THEN [rankings |-> rankings, reasoning_start |-> 0 - 1]
    ELSE LET line == StripLine(lines[i])
         IN IF Contains(line, RankMarkerWide) \/ Contains(line, RankMarker)
            THEN ScanFrom(lines, i + 1, model_names, rankings)
            ELSE IF Contains(line, ReasonMarkerWide) \/ Contains(line, ReasonMarker)
            THEN [rankings |-> rankings, reasoning_start |-> i - 1]
            ELSE IF StartsRankLine(line) /\ MatchedNames(model_names, line) # {}
            THEN ScanFrom(lines, i + 1, model_names,
                          Append(rankings, <<FirstMatch(model_names, line),
                                             Len(rankings) + 1>>))
            ELSE ScanFrom(lines, i + 1, model_names, rankings)

\* FillUnranked giving an unranked contestant its index in the contestant
\* list as position, not the next free position.
RECURSIVE FillUnrankedByIndex(_, _, _, _)
FillUnrankedByIndex(rankings, ranked_models, model_names, i) ==
    IF i > Len(model_names) THEN rankings
    ELSE IF model_names[i] \in ranked_models
    THEN FillUnrankedByIndex(rankings, ranked_models, model_names, i + 1)
    ELSE FillUnrankedByIndex(Append(rankings, <<model_names[i], i>>),
                             ranked_models, model_names, i + 1)

\* for model_name in model_names: if model_name not in ranked_models: append
RECURSIVE FillUnranked(_, _, _, _)
FillUnranked(rankings, ranked_models, model_names, i) ==
    IF i > Len(model_names) THEN rankings
    ELSE IF model_names[i] \in ranked_models
    THEN FillUnranked(rankings, ranked_models, model_names, i + 1)
    ELSE FillUnranked(Append(rankings, <<model_names[i], Len(rankings) + 1>>),
                      ranked_models, model_names, i + 1)

\* The except branch: the contestants in their order.
DefaultRanking(model_names) == [i \in DOMAIN model_names |-> <<model_names[i], i>>]

\* OnlineCompetitionSystem._parse_judge_response
ParseJudgeResponse(response, model_names) ==
    IF response.none
    THEN [rankings |-> DefaultRanking(model_names),
          reasoning |-> [kind |-> "parse_failed", lines |-> <<>>]]
    ELSE LET lines == StripSplit(response.lines)
             scan == ScanFrom(lines, 1, model_names, <<>>)
             ranked_models == {scan.rankings[k][1] : k \in DOMAIN scan.rankings}
         IN [rankings |-> FillUnranked(scan.rankings, ranked_models, model_names, 1),
             reasoning |->
                IF scan.reasoning_start > 0
                THEN [kind |-> "text",
                      lines |-> StripSplit(SubSeq(lines, scan.reasoning_start + 2,
                                                  Len(lines)))]
                ELSE [kind |-> "response", lines |-> response.lines]]

\* score_rules = {1: 3, 2: 2, 3: 1}; score_rules.get(rank_pos, 0)
ScoreRules(rank_pos) ==
    CASE rank_pos = 1 -> 3
      [] rank_pos = 2 -> 2
      [] rank_pos = 3 -> 1
      [] OTHER -> 0

\* The store: the rows of model_scores and of score_details, by rowid.
EmptyDb == [model_scores |-> <<>>, score_details |-> <<>>]

\* One pass of the loop of update_model_scores.  model_scores has no unique
\* constraint on model_name, so INSERT OR REPLACE inserts a row; the scalar
\* subqueries read a row of that name (which one is not specified when
\* there are several), or give NULL.
InsertScore(db, model_name, rank_pos, record_id) ==
    LET rows == {k \in DOMAIN db.model_scores :
                    db.model_scores[k].model_name = model_name}
        read == IF rows = {}
                THEN {[total_score |-> 0, total_questions |-> 0]}
                ELSE {[total_score |-> db.model_scores[k].total_score,
                       total_questions |-> db.model_scores[k].total_questions] :
                      k \in rows}
    IN {[model_scores |->
            Append(db.model_scores,
                   [model_name |-> model_name,
                    total_score |-> r.total_score + ScoreRules(rank_pos),
                    total_questions |-> r.total_questions + 1]),
         score_details |->
            Append(db.score_details,
                   [qa_record_id |-> record_id, model_name |-> model_name,
                    rank_position |-> rank_pos,
                    score |-> ScoreRules(rank_pos)])] : r \in read}

\* OnlineCompetitionDB.update_model_scores from item i of the rankings on:
\* the stores it may leave.
RECURSIVE UpdateModelScoresFrom(_, _, _, _)
UpdateModelScoresFrom(db, rankings, i, record_id) ==
    IF i > Len(rankings) THEN {db}
    ELSE UNION {UpdateModelScoresFrom(d, rankings, i + 1, record_id) :
                  d \in InsertScore(db, rankings[i][1], i, record_id)}

UpdateModelScores(db, rankings, record_id) ==
    UpdateModelScoresFrom(db, rankings, 1, record_id)


(***************************************************************************)
(* The inputs of a run.                                                    *)
(***************************************************************************)
\* The participant lists and the configured minimum of a run.
Configs ==
    {[models |-> <<"A", "B">>, min_models |-> 3],
     [models |-> <<"A", "B">>, min_models |-> 2],
     [models |-> <<"A", "B", "C">>, min_models |-> 3]}

\* The point table of the configuration the CLI writes.
DefaultScoring ==
    [first_place |-> 3, second_place |-> 2, third_place |-> 1, other_place |-> 0]

\* The ids of the supplied questions, in supplied order.
QuestionPool == <<12, 5, 9, 7, 3>>
QuestionLists == {SubSeq(QuestionPool, 1, k) : k \in 1..MaxQuestions}

\* What a model's provider returns when its call succeeds, and the errors
\* its client raises.
TextsOf(model) == {"answer of " \o model}
Errors == {"e1"}

ErrorResult ==
    [error |-> TRUE, final_rankings |-> <<>>, total_questions |-> 0,
     total_rounds |-> 0, detailed_results |-> <<>>]

\* The settings of a run whose questions are supplied.
NoSettings == [enabled |-> FALSE, count |-> 0, topics |-> {}, difficulty |-> ""]

\* No call of _parse_judge_response has returned yet.
NotParsed == [rankings |-> <<>>, reasoning |-> [kind |-> "none", lines |-> <<>>],
              called |-> FALSE]

(***************************************************************************)
(* Spec: LLMCompetition.run_competition                                    *)
(***************************************************************************)
Init ==
    /\ \E c \in Configs : models = c.models /\ min_models = c.min_models
    /\ scoring = DefaultScoring
    /\ questions \in QuestionLists
    /\ Len(models) * Len(questions) <= MaxRounds
    /\ pc = "init"
    /\ q_idx = 0
    /\ judge_idx = 0
    /\ tasks = <<>>
    /\ done_order = <<>>
    /\ answers = <<>>
    /\ last_resp = NoResponse
    /\ faults = 0
    /\ results = <<>>
    /\ final_scores = <<>>
    /\ final_result = NoResult
    /\ judgment = <<>>
    /\ prev_scores = <<>>
    /\ p_names = <<>>
    /\ p_response = NoneResponse
    /\ p_out = NotParsed
    /\ db_scores = EmptyDb
    /\ answer_calls = 0
    /\ judge_calls = 0
    /\ settings = NoSettings
    /\ current_judge_index = 0
    /\ calls = <<>>
    /\ qa_records = 0

\* NextRound with one rotation counter running on across the questions and
\* never reset: past the last judge it wraps by the modulo of the next count.
NextRoundKeepsCounting(q, j, n) ==
    IF j < n THEN [q |-> q, j |-> j + 1] ELSE [q |-> q + 1, j |-> (j % n) + 2]

\* The nested loops of run_competition: after judge j of question q comes
\* the next judge of q, and after the last judge the first judge of q + 1.
NextRound(q, j, n) ==
    IF j < n THEN [q |-> q, j |-> j + 1] ELSE [q |-> q + 1, j |-> 1]

\* validate_setup
ValidateSetup(ms, minimum) == Len(ms) >= minimum

\* The judge and the contestants of the round in progress.
Judge == models[judge_idx]
RoundContestants == Contestants(models, judge_idx)
\* AllDone for a wait that returns at the first completed task
\* (asyncio.wait(..., return_when=FIRST_COMPLETED) for asyncio.gather).
FirstDone == \E i \in DOMAIN tasks : tasks[i].st = "done"

AllDone == \A i \in DOMAIN tasks : tasks[i].st = "done"

\* _generate_final_result looks up the question of every recorded round
\* among self.questions by its id.
QuestionsFound(qs, res) ==
    \A k \in DOMAIN res : \E i \in DOMAIN qs : qs[i] = res[k].question_id

\* The loop of run_competition reaches the round (q, j): it launches the
\* round's answer tasks, or, past the last question, builds the result,
\* which raises when the question of a recorded round is not found.
EnterRound(q, j, led, res) ==
    IF q <= Len(questions)
    THEN /\ pc' = "collecting"
         /\ q_idx' = q
         /\ judge_idx' = j
         /\ tasks' = LaunchTasks(Contestants(models, j))
         /\ answer_calls' = answer_calls + Len(Contestants(models, j))
         /\ final_result' = final_result
    ELSE /\ pc' = IF QuestionsFound(questions, res) THEN "done" ELSE "raised"
         /\ q_idx' = q
         /\ judge_idx' = j
         /\ tasks' = <<>>
         /\ answer_calls' = answer_calls
         /\ final_result' = IF QuestionsFound(questions, res)
                            THEN GenerateFinalResult(led, questions, res)
                            ELSE final_result

\* run_competition: validation fails, the error result is returned.
StartRejected ==
    /\ pc = "init"
    /\ ~ValidateSetup(models, min_models)
    /\ pc' = "setup_error"
    /\ final_result' = ErrorResult
    /\ UNCHANGED <<cfgVars, q_idx, judge_idx, tasks, done_order, answers,
                   last_resp, faults, results, final_scores, callVars>>
    /\ UNCHANGED <<scoreVars, parseVars, settings, onlineVars>>

\* run_competition: validation passes, the questions are prepared and the
\* first round's answer tasks are launched.
StartAccepted ==
    /\ pc = "init"
    /\ ValidateSetup(models, min_models)
    /\ EnterRound(1, 1, final_scores, results)
    /\ done_order' = <<>>
    /\ UNCHANGED <<cfgVars, answers, last_resp, faults, results, final_scores,
                   judge_calls>>
    /\ UNCHANGED <<scoreVars, parseVars, settings, onlineVars>>

\* One contestant's task ends: its provider call returned or failed.
TaskEnds(i, outcome) ==
    /\ pc = "collecting"
    /\ i \in DOMAIN tasks
    /\ tasks[i].st = "running"
    /\ LET r == GetModelAnswer(RoundContestants[i], outcome)
       IN tasks' = [tasks EXCEPT ![i] = [st |-> "done", outcome |-> outcome,
                                         raised |-> r.raised, answer |-> r.answer]]
    /\ done_order' = Append(done_order, i)
    /\ UNCHANGED <<cfgVars, pc, q_idx, judge_idx, answers, last_resp, faults,
                   results, final_scores, final_result, callVars>>
    /\ UNCHANGED <<scoreVars, parseVars, settings, onlineVars>>

AnswerReturn ==
    \E i \in DOMAIN tasks :
        \E b \in TextsOf(RoundContestants[i]) : TaskEnds(i, Returned(b))

AnswerFail == \E i \in DOMAIN tasks : \E e \in Errors : TaskEnds(i, Failed(e))

\* The gather completes: _collect_answers returns, and _judge_answers
\* builds the prompt and calls the judge.
Gather ==
    /\ pc = "collecting"
    /\ AllDone
    /\ answers' = CollectAnswers(RoundContestants, tasks, done_order)
    /\ pc' = "judging"
    /\ judge_calls' = judge_calls + 1
    /\ done_order' = <<>>
    /\ UNCHANGED <<cfgVars, q_idx, judge_idx, tasks, last_resp,
                   faults, results, final_scores, final_result, answer_calls>>
    /\ UNCHANGED <<scoreVars, parseVars, settings, onlineVars>>

\* The response is JSON that ranks exactly the round's contestants, each
\* once, with numbers as scores.
WellFormed(resp, ans) ==
    /\ resp.kind = "json"
    /\ Len(resp.rankings) = Len(ans)
    /\ \A i \in DOMAIN ans :
          Cardinality({k \in DOMAIN resp.rankings :
                         resp.rankings[k].model_name = ans[i].model_name}) = 1
    /\ \A k \in DOMAIN resp.rankings : resp.rankings[k].score.t = "int"

\* The rest of the round once the judge's call is over: the JudgmentResult
\* is appended, the scores are updated (which may raise), and the loop goes
\* on to the next round or to the final result.
Judged(resp, perm, rnd) ==
    LET j == JudgeAnswers(questions[q_idx], answers, Judge, resp, perm, rnd)
        u == UpdateScores(final_scores, j.rankings, scoring)
        res == Append(results, j)
    IN  /\ last_resp' = resp
        /\ faults' = IF WellFormed(resp, answers) THEN faults ELSE faults + 1
        /\ results' = res
        /\ final_scores' = u.scores
        /\ answers' = <<>>
        /\ done_order' = <<>>
        /\ IF u.raised
           THEN /\ pc' = "raised"
                /\ tasks' = <<>>
                /\ UNCHANGED <<q_idx, judge_idx, final_result, answer_calls>>
           ELSE LET nxt == NextRound(q_idx, judge_idx, Len(models))
                IN EnterRound(nxt.q, nxt.j, u.scores, res)
        /\ UNCHANGED <<cfgVars, judge_calls>>
        /\ UNCHANGED <<scoreVars, parseVars, settings, onlineVars>>

IdPerm == [i \in DOMAIN answers |-> i]
NoRnd == [i \in DOMAIN answers |-> FallbackScoreLo]

\* The judge returns JSON with rankings and reasoning.
JudgeReturnsJson ==
    /\ pc = "judging"
    /\ \E entries \in DeclaredRankings(models, Len(answers)) :
          /\ WellFormed(JsonResponse(entries), answers) \/ faults < MaxFaults
          /\ Judged(JsonResponse(entries), IdPerm, NoRnd)

\* The judge returns a text _judge_answers cannot use; the fallback ranks.
JudgeReturnsGarbage ==
    /\ pc = "judging"
    /\ faults < MaxFaults
    /\ \E perm \in Perms(Len(answers)) :
       \E rnd \in [DOMAIN answers -> FallbackScoreLo..FallbackScoreHi] :
          Judged(GarbageResponse, perm, rnd)

\* The judge's call fails: _call_model returns its apology, which is no
\* JSON; the fallback ranks.
JudgeFails ==
    /\ pc = "judging"
    /\ faults < MaxFaults
    /\ \E perm \in Perms(Len(answers)) :
       \E rnd \in [DOMAIN answers -> FallbackScoreLo..FallbackScoreHi] :
          Judged(ApologyResponse(Judge), perm, rnd)

Next ==
    \/ StartRejected
    \/ StartAccepted
    \/ AnswerReturn
    \/ AnswerFail
    \/ Gather
    \/ JudgeReturnsJson
    \/ JudgeReturnsGarbage
    \/ JudgeFails

Spec == Init /\ [][Next]_vars

\* A run in which every provider call in flight eventually returns or fails
\* (the client's total timeout ends a pending call) and the event loop
\* resumes run_competition whenever what it awaits is over.
SpecFair == Spec /\ WF_vars(Next)

(***************************************************************************)
(* SpecRerun: run_competition invoked a second time on the same object,    *)
(* for two participants and a configured minimum of two.                   *)
(***************************************************************************)
InitRerun == Init /\ Len(models) = 2 /\ min_models = 2

\* run_competition is invoked once more after its first call returned:
\* generate_questions assigns self.questions again; self.results and
\* self.final_scores are the lists __init__ created.
RunAgain ==
    /\ pc = "done"
    /\ Len(results) = Len(questions) * Len(models)
    /\ pc' = "init"
    /\ questions' \in QuestionLists
    /\ q_idx' = 0
    /\ judge_idx' = 0
    /\ answer_calls' = 0
    /\ judge_calls' = 0
    /\ UNCHANGED <<models, min_models, scoring, tasks, done_order, answers,
                   last_resp, faults, results, final_scores, final_result>>
    /\ UNCHANGED <<scoreVars, parseVars, settings, onlineVars>>

NextRerun ==
    \/ StartAccepted
    \/ AnswerReturn
    \/ AnswerFail
    \/ Gather
    \/ JudgeReturnsJson
    \/ JudgeReturnsGarbage
    \/ JudgeFails
    \/ RunAgain

SpecRerun == InitRerun /\ [][NextRerun]_vars

(***************************************************************************)
(* SpecScore: _update_scores applied once to a ledger and a ranking.       *)
(***************************************************************************)
\* Point tables a configuration may hold: the CLI's, one with other values,
\* and one that penalises the places past the third.
PointTables ==
    {DefaultScoring,
     [first_place |-> 5, second_place |-> 3, third_place |-> 2, other_place |-> 1],
     [first_place |-> 3, second_place |-> 2, third_place |-> 1, other_place |-> -1]}

\* Ledgers that rounds applied earlier leave behind.
SampleLedgers ==
    {<<>>,
     <<<<"B", 3>>, <<"C", 2>>>>,
     <<<<"C", 0>>, <<"B", 5>>, <<"A", 5>>>>}

\* The rankings of a JudgmentResult: those a judge declares and those the
\* fallback builds.
ScoreEntries ==
    ({"A", "B", "C"} \X JudgeScores)
    \cup {<<"B", StrScore>>, <<UnhashableName, IntScore(7)>>}

SampleRankings == SeqsUpTo(ScoreEntries, MaxEntries)

InitScore ==
    /\ models = <<"A", "B", "C">>
    /\ min_models = 3
    /\ scoring \in PointTables
    /\ questions = <<>>
    /\ pc = "score"
    /\ q_idx = 0
    /\ judge_idx = 0
    /\ tasks = <<>>
    /\ done_order = <<>>
    /\ answers = <<>>
    /\ last_resp = NoResponse
    /\ faults = 0
    /\ results = <<>>
    /\ final_scores \in SampleLedgers
    /\ final_result = NoResult
    /\ judgment \in SampleRankings
    /\ prev_scores = <<>>
    /\ p_names = <<>>
    /\ p_response = NoneResponse
    /\ p_out = NotParsed
    /\ db_scores = EmptyDb
    /\ answer_calls = 0
    /\ judge_calls = 0
    /\ settings = NoSettings
    /\ current_judge_index = 0
    /\ calls = <<>>
    /\ qa_records = 0

\* self._update_scores(judgment) returns.
ApplyRound ==
    /\ pc = "score"
    /\ ~UpdateScores(final_scores, judgment, scoring).raised
    /\ prev_scores' = final_scores
    /\ final_scores' = UpdateScores(final_scores, judgment, scoring).scores
    /\ pc' = "applied"
    /\ UNCHANGED <<cfgVars, q_idx, judge_idx, tasks, done_order, answers,
                   last_resp, faults, results, final_result, judgment>>
    /\ UNCHANGED <<parseVars, callVars, settings, onlineVars>>

\* self._update_scores(judgment) raises TypeError.
ApplyRoundRaises ==
    /\ pc = "score"
    /\ UpdateScores(final_scores, judgment, scoring).raised
    /\ prev_scores' = final_scores
    /\ final_scores' = UpdateScores(final_scores, judgment, scoring).scores
    /\ pc' = "apply_raised"
    /\ UNCHANGED <<cfgVars, q_idx, judge_idx, tasks, done_order, answers,
                   last_resp, faults, results, final_result, judgment>>
    /\ UNCHANGED <<parseVars, callVars, settings, onlineVars>>

NextScore == ApplyRound \/ ApplyRoundRaises

SpecScore == InitScore /\ [][NextScore]_vars

(***************************************************************************)
(* SpecAnswer: one call of _collect_answers, for any judge of a            *)
(* participant list; a provider call returns, raises an API error, or      *)
(* runs into the client's timeout.                                         *)
(***************************************************************************)
\* str(e) of the asyncio.TimeoutError the client's total timeout raises.
TimeoutMessage == ""

AnswerParticipants == {<<"A", "B", "C">>, <<"A", "B", "C", "D">>}

InitAnswer ==
    /\ models \in AnswerParticipants
    /\ min_models = 3
    /\ scoring = DefaultScoring
    /\ questions = SubSeq(QuestionPool, 1, 1)
    /\ pc = "collecting"
    /\ q_idx = 1
    /\ judge_idx \in DOMAIN models
    /\ tasks = LaunchTasks(Contestants(models, judge_idx))
    /\ done_order = <<>>
    /\ answers = <<>>
    /\ last_resp = NoResponse
    /\ faults = 0
    /\ results = <<>>
    /\ final_scores = <<>>
    /\ final_result = NoResult
    /\ judgment = <<>>
    /\ prev_scores = <<>>
    /\ p_names = <<>>
    /\ p_response = NoneResponse
    /\ p_out = NotParsed
    /\ db_scores = EmptyDb
    /\ answer_calls = Len(tasks)
    /\ judge_calls = 0
    /\ settings = NoSettings
    /\ current_judge_index = 0
    /\ calls = <<>>
    /\ qa_records = 0

\* A contestant's provider call runs into the timeout of the client.
AnswerTimesOut == \E i \in DOMAIN tasks : TaskEnds(i, Failed(TimeoutMessage))

NextAnswer ==
    \/ AnswerReturn
    \/ AnswerFail
    \/ AnswerTimesOut
    \/ Gather

SpecAnswer == InitAnswer /\ [][NextAnswer]_vars

(***************************************************************************)
(* SpecParse: one judge response parsed by _parse_judge_response and the   *)
(* ranking stored by update_model_scores, as process_question does.        *)
(***************************************************************************)
\* The lines a judge's free text is made of.
ResponseLines ==
    {<<RankMarkerWide>>,
     <<"1", "B">>,
     <<Space, "2", "C">>,
     <<Ordinal, "C", "B">>,
     <<"1", "B", RankMarker>>,
     <<ReasonMarkerWide, "text">>,
     <<ReasonMarker>>,
     <<"text", "B">>,
     <<Space>>}

\* The response of Scenario D: the rankings marker, "1. B - ...",
\* "2. C - ...", the reasoning marker, and one line of reasoning.
ScenarioDReasoning == "<reasoning of scenario D>"
ScenarioDResponse ==
    StrResponse(<<<<RankMarkerWide>>,
                  <<"1", "B", "text">>,
                  <<"2", "C", "text">>,
                  <<ReasonMarkerWide>>,
                  <<ScenarioDReasoning>>>>)

Responses ==
    {StrResponse(ls) : ls \in SeqsUpTo(ResponseLines, MaxLines)}
    \cup {NoneResponse, ScenarioDResponse}

\* list(answers.keys()): the round's contestants, distinct names.
NameLists == {<<"B", "C">>, <<"C", "B">>, <<"C", "A", "B">>}

\* The id add_qa_record gives the round's record.
RecordId == 1

InitParse ==
    /\ models = <<>>
    /\ min_models = 3
    /\ scoring = DefaultScoring
    /\ questions = <<>>
    /\ pc = "parse"
    /\ q_idx = 0
    /\ judge_idx = 0
    /\ tasks = <<>>
    /\ done_order = <<>>
    /\ answers = <<>>
    /\ last_resp = NoResponse
    /\ faults = 0
    /\ results = <<>>
    /\ final_scores = <<>>
    /\ final_result = NoResult
    /\ judgment = <<>>
    /\ prev_scores = <<>>
    /\ p_names \in NameLists
    /\ p_response \in Responses
    /\ p_out = NotParsed
    /\ db_scores = EmptyDb
    /\ answer_calls = 0
    /\ judge_calls = 0
    /\ settings = NoSettings
    /\ current_judge_index = 0
    /\ calls = <<>>
    /\ qa_records = 0

\* rankings, reasoning = self._parse_judge_response(judge_response, names)
ParseResponse ==
    /\ pc = "parse"
    /\ LET r == ParseJudgeResponse(p_response, p_names)
       IN p_out' = [rankings |-> r.rankings, reasoning |-> r.reasoning,
                    called |-> TRUE]
    /\ pc' = "parsed"
    /\ UNCHANGED <<cfgVars, q_idx, judge_idx, tasks, done_order, answers,
                   last_resp, faults, results, final_scores, final_result>>
    /\ UNCHANGED <<scoreVars, p_names, p_response, db_scores>>
    /\ UNCHANGED <<callVars, settings, onlineVars>>

\* self.db.update_model_scores(rankings, record_id)
StoreRound ==
    /\ pc = "parsed"
    /\ db_scores' \in UpdateModelScores(db_scores, p_out.rankings, RecordId)
    /\ pc' = "stored"
    /\ UNCHANGED <<cfgVars, q_idx, judge_idx, tasks, done_order, answers,
                   last_resp, faults, results, final_scores, final_result>>
    /\ UNCHANGED <<scoreVars, p_names, p_response, p_out>>
    /\ UNCHANGED <<callVars, settings, onlineVars>>

NextParse == ParseResponse \/ StoreRound

SpecParse == InitParse /\ [][NextParse]_vars

(***************************************************************************)
(* SpecOnline: calls of OnlineCompetitionSystem.process_question on one    *)
(* system, each a coroutine of the one event loop; a call runs from one    *)
(* await to the next without interruption.                                 *)
(***************************************************************************)
\* The valid models load_config accepted: at least three.
OnlineModels == <<"A", "B", "C">>

\* get_next_judge with an index that advances by two.
GetNextJudgeSkips(ms, idx) ==
    [judge |-> ms[idx + 1], index |-> (idx + 2) % Len(ms)]

\* OnlineCompetitionSystem.get_next_judge: the judge, and the index it leaves.
GetNextJudge(ms, idx) ==
    [judge |-> ms[idx + 1], index |-> (idx + 1) % Len(ms)]

\* A call that has not returned.
Open(c) == c.st # "returned"
OpenCalls == {k \in DOMAIN calls : Open(calls[k])}

\* list(answers.keys())
AnswerNames(ans) == [i \in DOMAIN ans |-> ans[i][1]]

\* The texts a judge returns for the answers of two or more contestants:
\* the contestants ranked in the order of the answers, the first two
\* exchanged, and no content.
OnlineResponses(names) ==
    {StrResponse(<<<<"1", names[1]>>, <<"2", names[2]>>>>),
     StrResponse(<<<<"1", names[2]>>, <<"2", names[1]>>>>),
     NoneResponse}

\* The local state of a returned call is gone; its result remains.
ReturnedCall(c, success) ==
    [c EXCEPT !.st = "returned", !.success = success, !.started = 0,
              !.ended = 0, !.answers = <<>>]

InitOnline ==
    /\ models = OnlineModels
    /\ min_models = 3
    /\ scoring = DefaultScoring
    /\ questions = <<>>
    /\ pc = "online"
    /\ q_idx = 0
    /\ judge_idx = 0
    /\ tasks = <<>>
    /\ done_order = <<>>
    /\ answers = <<>>
    /\ last_resp = NoResponse
    /\ faults = 0
    /\ results = <<>>
    /\ final_scores = <<>>
    /\ final_result = NoResult
    /\ judgment = <<>>
    /\ prev_scores = <<>>
    /\ p_names = <<>>
    /\ p_response = NoneResponse
    /\ p_out = NotParsed
    /\ db_scores = EmptyDb
    /\ answer_calls = 0
    /\ judge_calls = 0
    /\ settings = NoSettings
    /\ current_judge_index = 0
    /\ calls = <<>>
    /\ qa_records = 0

\* What no step of the online system changes.
onlineFixed ==
    <<cfgVars, pc, q_idx, judge_idx, tasks, done_order, answers, last_resp,
      faults, results, final_scores, final_result, scoreVars, p_names,
      p_response, p_out, callVars, settings>>

\* process_question begins: it takes the next judge, and awaits the call
\* of the first participant.
BeginCall ==
    /\ pc = "online"
    /\ Len(calls) < MaxCalls
    /\ Cardinality(OpenCalls) < MaxOpen
    /\ LET g == GetNextJudge(models, current_judge_index)
       IN /\ current_judge_index' = g.index
          /\ calls' = Append(calls,
                             [judge |-> g.judge, index |-> current_judge_index,
                              st |-> "answering", started |-> 1, ended |-> 0,
                              answers |-> <<>>, success |-> FALSE])
    /\ UNCHANGED <<onlineFixed, db_scores, qa_records>>

\* The awaited call of a participant is over: its answer, or the failure
\* text, is stored, and the call of the next participant is awaited, or,
\* after the last one, the call of the judge.
OnlineAnswerEnds(k, ok) ==
    /\ pc = "online"
    /\ k \in DOMAIN calls
    /\ calls[k].st = "answering"
    /\ LET c == calls[k]
           participants == GetParticipants(models, c.judge)
           ans == Append(c.answers, <<participants[c.ended + 1], ok>>)
       IN calls' = [calls EXCEPT ![k] =
                      IF c.ended + 1 < Len(participants)
                      THEN [c EXCEPT !.ended = c.ended + 1,
                                     !.started = c.started + 1,
                                     !.answers = ans]
                      ELSE [c EXCEPT !.ended = c.ended + 1,
                                     !.st = "judging",
                                     !.answers = ans]]
    /\ UNCHANGED <<onlineFixed, current_judge_index, db_scores, qa_records>>

OnlineAnswerReturn == \E k \in DOMAIN calls : OnlineAnswerEnds(k, TRUE)

OnlineAnswerFail == \E k \in DOMAIN calls : OnlineAnswerEnds(k, FALSE)

\* add_qa_record and update_model_scores with the rankings, and the return.
StoreAndReturn(k, rankings) ==
    /\ qa_records' = qa_records + 1
    /\ db_scores' \in UpdateModelScores(db_scores, rankings, qa_records + 1)
    /\ calls' = [calls EXCEPT ![k] = ReturnedCall(calls[k], TRUE)]
    /\ UNCHANGED <<onlineFixed, current_judge_index>>

\* The judge's call returns: the response is parsed and the round stored.
OnlineJudgeReturns ==
    /\ pc = "online"
    /\ \E k \in DOMAIN calls :
          /\ calls[k].st = "judging"
          /\ \E response \in OnlineResponses(AnswerNames(calls[k].answers)) :
                StoreAndReturn(k, ParseJudgeResponse(response,
                                     AnswerNames(calls[k].answers)).rankings)

\* The judge's call raises: the names are shuffled and ranked 1..n.
OnlineJudgeFails ==
    /\ pc = "online"
    /\ \E k \in DOMAIN calls :
          /\ calls[k].st = "judging"
          /\ \E perm \in Perms(Len(calls[k].answers)) :
                StoreAndReturn(k, [i \in DOMAIN perm |->
                                     <<AnswerNames(calls[k].answers)[perm[i]], i>>])

\* The judge's call is over and add_qa_record raises: the outer handler
\* of process_question returns the failure.
OnlineStoreFails ==
    /\ pc = "online"
    /\ \E k \in DOMAIN calls :
          /\ calls[k].st = "judging"
          /\ calls' = [calls EXCEPT ![k] = ReturnedCall(calls[k], FALSE)]
    /\ UNCHANGED <<onlineFixed, current_judge_index, db_scores, qa_records>>

NextOnline ==
    \/ BeginCall
    \/ OnlineAnswerReturn
    \/ OnlineAnswerFail
    \/ OnlineJudgeReturns
    \/ OnlineJudgeFails
    \/ OnlineStoreFails

SpecOnline == InitOnline /\ [][NextOnline]_vars

(***************************************************************************)
(* SpecQuestions: one call of LLMCompetition.generate_questions, for       *)
(* settings and a generator's response drawn from bounded sets.            *)
(***************************************************************************)
\* The preset bank's questions of the topics logic ("<logic>") and
\* mathematics ("<math>"), ids 1 to 6, with their difficulties.
BankQuestions ==
    <<[id |-> 1, topic |-> "<logic>", difficulty |-> "hard"],
      [id |-> 2, topic |-> "<logic>", difficulty |-> "medium"],
      [id |-> 3, topic |-> "<logic>", difficulty |-> "medium"],
      [id |-> 4, topic |-> "<math>", difficulty |-> "easy"],
      [id |-> 5, topic |-> "<math>", difficulty |-> "medium"],
      [id |-> 6, topic |-> "<math>", difficulty |-> "hard"]>>

\* _get_fallback_questions: the ids of the five fixed questions.
FallbackQuestions == <<1, 2, 3, 4, 5>>

\* random.sample(population, k): k items of different positions, in any
\* order.
Samples(population, k) ==
    {[i \in 1..k |-> population[pick[i]]] :
        pick \in {f \in [1..k -> DOMAIN population] :
                    \A i, j \in 1..k : i # j => f[i] # f[j]}}

\* QuestionBank.get_random_questions: the lists it may return.
GetRandomQuestions(bank, count, topics, difficulty) ==
    LET InTopics(q) == q.topic \in topics
        OfDifficulty(q) == q.difficulty = difficulty
        by_topic == IF topics # {} THEN SelectSeq(bank, InTopics) ELSE bank
        filtered == IF difficulty # "" THEN SelectSeq(by_topic, OfDifficulty)
                    ELSE by_topic
    IN IF Len(filtered) < count THEN {filtered} ELSE Samples(filtered, count)

\* _load_predefined_questions: the id lists it may return.
LoadPredefinedQuestions(st) ==
    {IF qs # <<>> THEN [i \in DOMAIN qs |-> qs[i].id] ELSE FallbackQuestions :
        qs \in GetRandomQuestions(BankQuestions, st.count, st.topics, st.difficulty)}

\* What the generator's call gives _generate_questions_by_llm: a JSON array
\* of objects, each with or without all of content, topic and difficulty; a
\* JSON object with some number of keys; text that is no JSON; or the
\* apology of _call_model.
ArrayResponse(items) == [kind |-> "array", items |-> items, keys |-> 0]
ObjectResponse(n) == [kind |-> "object", items |-> <<>>, keys |-> n]
TextResponse == [kind |-> "text", items |-> <<>>, keys |-> 0]
GeneratorApology == [kind |-> "apology", items |-> <<>>, keys |-> 0]

GeneratorResponses ==
    {ArrayResponse(items) : items \in SeqsUpTo(BOOLEAN, MaxGenerated)}
    \cup {ObjectResponse(n) : n \in 0..1}
    \cup {TextResponse, GeneratorApology}

\* _generate_questions_by_llm: ids 1.. for the items of a JSON array whose
\* items all have the three keys, nothing for a JSON object without keys,
\* and the fallback questions whenever json.loads or an item raises.
GenerateQuestionsByLlm(response) ==
    CASE response.kind = "array" ->
            IF \A i \in DOMAIN response.items : response.items[i]
            THEN [i \in DOMAIN response.items |-> i]
            ELSE FallbackQuestions
      [] response.kind = "object" ->
            IF response.keys = 0 THEN <<>> ELSE FallbackQuestions
      [] OTHER -> FallbackQuestions

QuestionSettings ==
    [enabled : BOOLEAN, count : 0..MaxCount,
     topics : SUBSET {"<logic>", "<math>", "<history>"},
     difficulty : {"", "easy", "medium", "hard"}]

InitQuestions ==
    /\ models = <<"A", "B", "C">>
    /\ min_models = 3
    /\ scoring = DefaultScoring
    /\ questions = <<>>
    /\ pc = "generate"
    /\ q_idx = 0
    /\ judge_idx = 0
    /\ tasks = <<>>
    /\ done_order = <<>>
    /\ answers = <<>>
    /\ last_resp = NoResponse
    /\ faults = 0
    /\ results = <<>>
    /\ final_scores = <<>>
    /\ final_result = NoResult
    /\ judgment = <<>>
    /\ prev_scores = <<>>
    /\ p_names = <<>>
    /\ p_response = NoneResponse
    /\ p_out = NotParsed
    /\ db_scores = EmptyDb
    /\ answer_calls = 0
    /\ judge_calls = 0
    /\ settings \in QuestionSettings
    /\ current_judge_index = 0
    /\ calls = <<>>
    /\ qa_records = 0

questionsFixed ==
    <<models, min_models, scoring, q_idx, judge_idx, tasks, done_order,
      answers, last_resp, faults, results, final_scores, final_result,
      scoreVars, parseVars, callVars, settings, onlineVars>>

\* generate_questions with generation enabled: the first model is asked.
GenerateByLlm ==
    /\ pc = "generate"
    /\ settings.enabled
    /\ \E response \in GeneratorResponses :
          questions' = GenerateQuestionsByLlm(response)
    /\ pc' = "generated"
    /\ UNCHANGED questionsFixed

\* generate_questions with generation disabled: the preset bank is used.
LoadPredefined ==
    /\ pc = "generate"
    /\ ~settings.enabled
    /\ questions' \in LoadPredefinedQuestions(settings)
    /\ pc' = "generated"
    /\ UNCHANGED questionsFixed

NextQuestions == GenerateByLlm \/ LoadPredefined

SpecQuestions == InitQuestions /\ [][NextQuestions]_vars

(***************************************************************************)
(* Properties.                                                             *)
(***************************************************************************)
RankingNames(r) == [i \in DOMAIN r |-> r[i][1]]

NoDuplicates(s) == \A i, j \in DOMAIN s : i # j => s[i] # s[j]

\* C1: in every recorded round of a run with at least three participants
\* the names of the round's ranking are exactly the round's contestants:
\* none missing, none twice, the judge's own name absent.
C1_RankingCoversContestants ==
    Len(models) >= 3 =>
        \A k \in DOMAIN results :
            LET names == RankingNames(results[k].rankings)
            IN /\ Range(names) = Range(models) \ {results[k].judge_model}
               /\ NoDuplicates(names)

\* C2: whatever the response text, _parse_judge_response returns a ranking
\* in which every contestant name appears exactly once with the positions
\* 1..n, n the number of contestants, and update_model_scores then writes
\* at most one award per contestant for the round.
C2_EveryContestantRankedOnce ==
    /\ pc \in {"parsed", "stored"} =>
          /\ Len(p_out.rankings) = Len(p_names)
          /\ \A i \in DOMAIN p_names :
                Count(RankingNames(p_out.rankings), p_names[i]) = 1
          /\ \A k \in DOMAIN p_out.rankings : p_out.rankings[k][2] = k
    /\ pc = "stored" =>
          \A i \in DOMAIN p_names :
              Cardinality({k \in DOMAIN db_scores.score_details :
                             db_scores.score_details[k].model_name = p_names[i]}) <= 1

NonNegativeTable(t) ==
    /\ t.first_place >= 0
    /\ t.second_place >= 0
    /\ t.third_place >= 0
    /\ t.other_place >= 0

LedgerNames == {"A", "B", "C", UnknownName}

NeverLower(before, after) ==
    /\ \A n \in LedgerNames : Total(after, n) >= Total(before, n)
    /\ \A n \in LedgerNames : Has(before, n) => Has(after, n)

NonNegativeLedger(led) == \A i \in DOMAIN led : led[i][2] >= 0

\* C3 as claimed: after a round is applied by _update_scores (also one that
\* raised partway), no total is lower than before the round and every total
\* is non-negative, whatever the configured point table.
C3_TotalsNeverDecrease ==
    pc \in {"applied", "apply_raised"} =>
        /\ NeverLower(prev_scores, final_scores)
        /\ NonNegativeLedger(final_scores)

\* C3 amended: when no entry of the configured point table is negative, a
\* round applied by _update_scores (also one that raised partway) lowers no
\* total, removes no entry and leaves every total non-negative.
C3_TotalsNeverDecreaseNonNegativeTable ==
    (pc \in {"applied", "apply_raised"} /\ NonNegativeTable(scoring)) =>
        /\ NeverLower(prev_scores, final_scores)
        /\ NonNegativeLedger(final_scores)

C3_Witness ==
    /\ pc = "applied"
    /\ NonNegativeTable(scoring)
    /\ prev_scores # <<>>
    /\ Len(judgment) >= 3
    /\ \E n \in LedgerNames :
          Has(prev_scores, n) /\ Total(final_scores, n) > Total(prev_scores, n)

\* C4: the k-th recorded round (from 0) is judged by participants[k mod N]
\* and is about question k div N of the supplied list, and a finished run
\* has recorded N rounds for each question.
C4_JudgeRotation ==
    /\ \A k \in DOMAIN results :
          /\ results[k].judge_model = models[((k - 1) % Len(models)) + 1]
          /\ results[k].question_id = questions[((k - 1) \div Len(models)) + 1]
    /\ pc = "done" => Len(results) = Len(questions) * Len(models)

C4_Witness ==
    /\ pc = "done"
    /\ Len(questions) = 2
    /\ Len(results) = 2 * Len(models)

OnePerContestant(ans, contestants) ==
    /\ Len(ans) = Len(contestants)
    /\ \A i \in DOMAIN contestants : ans[i].model_name = contestants[i]

\* C5: whatever the order in which the round's provider calls completed and
\* whichever failed, _collect_answers returns one answer per contestant and
\* the i-th answer is the i-th contestant's.
C5_OneAnswerPerContestantInOrder ==
    /\ (pc = "collecting" /\ AllDone) =>
          OnePerContestant(CollectAnswers(RoundContestants, tasks, done_order),
                           RoundContestants)
    /\ pc = "judging" => OnePerContestant(answers, RoundContestants)

C5_Witness ==
    /\ pc = "collecting"
    /\ AllDone
    /\ done_order = <<2, 1>>
    /\ ~tasks[2].outcome.ok
    /\ tasks[1].outcome.ok

\* C6: when a contestant's provider call failed, the round goes on to the
\* judge; every contestant whose call succeeded has exactly the text its own
\* provider returned, every failed contestant has an answer (with a
\* non-empty text), and the judge's prompt lists all contestants.
C6_FailureIsIsolated ==
    pc = "judging" =>
        /\ Len(answers) = Len(RoundContestants)
        /\ \A i \in DOMAIN RoundContestants :
              /\ answers[i].model_name = RoundContestants[i]
              /\ tasks[i].outcome.ok =>
                    answers[i].content = Text(tasks[i].outcome.body)
              /\ ~tasks[i].outcome.ok =>
                    answers[i].content.kind \in {"apology", "default"}
        /\ [i \in DOMAIN answers |-> JudgePrompt(answers)[i][1]] = RoundContestants

C6_Witness ==
    /\ pc = "judging"
    /\ Len(models) = 3
    /\ ~tasks[1].outcome.ok
    /\ tasks[2].outcome.ok
    /\ answers[2].content = Text("answer of " \o RoundContestants[2])

\* C7: a run with fewer than three participants is rejected before any
\* round: no answer task is launched, no round recorded, the ledger empty.
C7_FewerThanThreeRejected ==
    Len(models) < 3 =>
        /\ pc \in {"init", "setup_error"}
        /\ tasks = <<>>
        /\ results = <<>>
        /\ final_scores = <<>>

\* C8: once validation has passed (at least three participants), nothing a
\* provider or a judge returns makes run_competition raise.
C8_RunNeverRaises == Len(models) >= 3 => pc # "raised"

\* The number of items of the ranking placed before item i by a stable
\* descending sort: those with a higher score, and the earlier ones with
\* the same score.
PlaceOf(r, i) ==
    Cardinality({j \in DOMAIN r :
                   \/ r[j][2].v > r[i][2].v
                   \/ (r[j][2].v = r[i][2].v /\ j < i)})

PointsOfPlace(t, place) ==
    CASE place = 0 -> t.first_place
      [] place = 1 -> t.second_place
      [] place = 2 -> t.third_place
      [] OTHER -> t.other_place

RECURSIVE AwardedTo(_, _, _, _)
AwardedTo(r, t, n, i) ==
    IF i > Len(r) THEN 0
    ELSE (IF r[i][1] = n THEN PointsOfPlace(t, PlaceOf(r, i)) ELSE 0)
         + AwardedTo(r, t, n, i + 1)

\* C9: a round that _update_scores applies adds, to each name, the points of
\* the places its items take when the ranking is ordered by declared score
\* descending (first, second, third, then other_place), whatever the
\* ledger held before.
C9_PlacePointsByDescendingScore ==
    pc = "applied" =>
        \A n \in LedgerNames :
            Total(final_scores, n) - Total(prev_scores, n)
                = AwardedTo(judgment, scoring, n, 1)

C9_Witness ==
    /\ pc = "applied"
    /\ Len(judgment) = 4
    /\ judgment[1][2].v < judgment[2][2].v
    /\ judgment[3][2].v = judgment[1][2].v
    /\ NoDuplicates(RankingNames(SubSeq(judgment, 1, 3)))
    /\ prev_scores # <<>>

PositionIn(s, x) == CHOOSE i \in DOMAIN s : s[i] = x

SortedByTotal(fr) == \A i, j \in DOMAIN fr : i < j => fr[i][2] >= fr[j][2]

\* C10 as claimed: the final ranking is ordered by total descending and
\* participants with equal totals appear in participant-list order.
C10_TiesInParticipantOrder ==
    (pc = "done" /\ Len(models) >= 3) =>
        LET fr == final_result.final_rankings
        IN /\ SortedByTotal(fr)
           /\ \A i, j \in DOMAIN fr :
                 (/\ i < j
                  /\ fr[i][2] = fr[j][2]
                  /\ fr[i][1] \in Range(models)
                  /\ fr[j][1] \in Range(models))
                 => PositionIn(models, fr[i][1]) < PositionIn(models, fr[j][1])

\* C10 amended: the final ranking lists the ledger's (name, total) pairs by
\* total descending, and names with equal totals appear in the order in
\* which they first received points (the ledger's insertion order);
\* computing it again from the unchanged ledger gives the same list.
C10_TiesInLedgerOrder ==
    pc = "done" =>
        LET fr == final_result.final_rankings
        IN /\ Len(fr) = Len(final_scores)
           /\ Range(fr) = Range(final_scores)
           /\ SortedByTotal(fr)
           /\ \A i, j \in DOMAIN fr :
                 (i < j /\ fr[i][2] = fr[j][2])
                 => PositionIn(final_scores, fr[i]) < PositionIn(final_scores, fr[j])
           /\ GenerateFinalResult(final_scores, questions, results) = final_result

C10_Witness ==
    /\ pc = "done"
    /\ Len(models) = 3
    /\ \E i, j \in DOMAIN final_result.final_rankings :
          LET fr == final_result.final_rankings
          IN /\ i < j
             /\ fr[i][2] = fr[j][2]
             /\ fr[i][1] \in Range(models)
             /\ fr[j][1] \in Range(models)
             /\ PositionIn(models, fr[i][1]) > PositionIn(models, fr[j][1])

\* The structured response of Scenario A: B scored 9 and C scored 7.
ScenarioAResponse ==
    JsonResponse(<<[model_name |-> "B", score |-> IntScore(9)],
                   [model_name |-> "C", score |-> IntScore(7)]>>)

\* C11: with participants [A, B, C], one question and the point table
\* {3, 2, 1, 0}, the round judged by A in which B and C both answered
\* successfully and the judge returned B = 9, C = 7 is recorded with B
\* first and C second, and the ledger gains 3 for B, 2 for C and nothing
\* for A.
C11_ScenarioA ==
    [][(/\ pc = "judging"
        /\ models = <<"A", "B", "C">>
        /\ Len(questions) = 1
        /\ scoring = DefaultScoring
        /\ judge_idx = 1
        /\ results = <<>>
        /\ \A i \in DOMAIN tasks : tasks[i].outcome.ok
        /\ last_resp' = ScenarioAResponse
        /\ results' # results)
       => (/\ Len(results') = 1
           /\ results'[1].judge_model = "A"
           /\ results'[1].rankings = <<<<"B", IntScore(9)>>, <<"C", IntScore(7)>>>>
           /\ final_scores' = <<<<"B", 3>>, <<"C", 2>>>>
           /\ Total(final_scores', "A") = Total(final_scores, "A")
           /\ pc' = "collecting")]_vars

C11_Witness ==
    /\ models = <<"A", "B", "C">>
    /\ Len(results) = 1
    /\ last_resp = ScenarioAResponse
    /\ results[1].judge_model = "A"
    /\ Total(final_scores, "B") = 3
    /\ Total(final_scores, "C") = 2
    /\ ~Has(final_scores, "A")

\* The lines of the response as the scan sees them, and for a line: whether
\* it holds a rankings marker, whether it is the line of a reasoning marker.
ScannedLines == StripSplit(p_response.lines)

HasRankMarker(line) == Contains(line, RankMarkerWide) \/ Contains(line, RankMarker)

HasReasonMarker(line) ==
    /\ ~HasRankMarker(line)
    /\ Contains(line, ReasonMarkerWide) \/ Contains(line, ReasonMarker)

\* The index of the first reasoning-marker line, or one past the last line.
FirstReasonLine ==
    LET marked == {i \in DOMAIN ScannedLines : HasReasonMarker(ScannedLines[i])}
    IN IF marked = {} THEN Len(ScannedLines) + 1
       ELSE CHOOSE i \in marked : \A k \in marked : i <= k

\* The lines that give a position: before the reasoning marker, without a
\* rankings marker, starting with a digit or the ordinal marker, and
\* holding a contestant's name.
PositionLines ==
    {i \in 1..(FirstReasonLine - 1) :
        LET line == StripLine(ScannedLines[i])
        IN /\ ~HasRankMarker(line)
           /\ line # <<>>
           /\ line[1] \in Digits \cup {Ordinal}
           /\ \E n \in DOMAIN p_names : Contains(line, p_names[n])}

NthOf(S, k) == CHOOSE i \in S : Cardinality({j \in S : j < i}) = k - 1

\* The contestant a line gives its position to: the first name of the
\* contestant list that the line holds.
NameOfLine(line) ==
    LET n == CHOOSE n \in DOMAIN p_names :
                /\ Contains(line, p_names[n])
                /\ \A k \in 1..(n - 1) : ~Contains(line, p_names[k])
    IN p_names[n]

\* C12: _parse_judge_response gives the k-th line that starts with a digit
\* or the ordinal marker, holds a contestant name, holds no rankings marker
\* and comes before the reasoning marker, position k for the name matched
\* in it; for the response of Scenario D and contestants [B, C] it returns
\* [(B, 1), (C, 2)] and the reasoning line of the scenario.
C12_ScanAssignsSequentialPositions ==
    (pc \in {"parsed", "stored"} /\ ~p_response.none) =>
        /\ Len(p_out.rankings) >= Cardinality(PositionLines)
        /\ \A k \in 1..Cardinality(PositionLines) :
              p_out.rankings[k] =
                  <<NameOfLine(ScannedLines[NthOf(PositionLines, k)]), k>>
        /\ (p_response = ScenarioDResponse /\ p_names = <<"B", "C">>) =>
              /\ p_out.rankings = <<<<"B", 1>>, <<"C", 2>>>>
              /\ p_out.reasoning =
                    [kind |-> "text", lines |-> << <<ScenarioDReasoning>> >>]

C12_Witness ==
    /\ pc = "parsed"
    /\ p_response = ScenarioDResponse
    /\ p_names = <<"B", "C">>
    /\ p_out.rankings = <<<<"B", 1>>, <<"C", 2>>>>
    /\ Cardinality(PositionLines) = 2

\* A JudgmentResult has the fields question_id, judge_model, rankings and
\* reasoning, and no degraded field: the one mark of a recovered error a
\* recorded round can carry is the fixed reasoning text of the fallback.
MarkedDegraded(round) == round.reasoning = FallbackReasoning

\* C13: a round is recorded as degraded exactly when a recovered error
\* occurred in it: a contestant's call failed, the judge's call failed, or
\* the judge's response was no usable JSON and the fallback ranked.
C13_DegradedRoundsAreMarked ==
    [][(Len(models) >= 3 /\ pc = "judging" /\ results' # results) =>
          (MarkedDegraded(results'[Len(results')])
             <=> \/ \E i \in DOMAIN tasks : ~tasks[i].outcome.ok
                 \/ last_resp'.kind # "json")]_vars

NonEmptyText(content) == content.kind \in {"apology", "default"} \/ content.body # ""

\* The messages of the errors a provider call can end with.
ErrorMessages == Errors \cup {TimeoutMessage}

FallbackPlaces(perm, shuffled, rnd) ==
    LET round == JudgeAnswers(questions[q_idx], answers, Judge,
                              ApologyResponse(Judge), shuffled, rnd)
        placed == SortedRankings(round.rankings)
        after == UpdateScores(final_scores, round.rankings, scoring)
    IN /\ round.reasoning = FallbackReasoning
       /\ RankingNames(placed) = [i \in DOMAIN answers |-> answers[perm[i]].model_name]
       /\ ~after.raised
       /\ \A i \in DOMAIN placed :
             Total(after.scores, placed[i][1])
                 = Total(final_scores, placed[i][1]) + PointsOfPlace(scoring, i - 1)

\* C15: when the judge's call fails, every order of the round's contestants
\* is a possible order of the places: for each permutation there is an
\* outcome of the fallback's shuffle and random scores that awards the
\* places in that order.
C15_EveryPlacementPossible ==
    pc = "judging" =>
        \A perm \in Perms(Len(answers)) :
            \E shuffled \in Perms(Len(answers)) :
            \E rnd \in [DOMAIN answers -> FallbackScoreLo..FallbackScoreHi] :
                FallbackPlaces(perm, shuffled, rnd)

C15_Witness ==
    /\ models = <<"A", "B", "C">>
    /\ Len(results) = 2
    /\ last_resp = ApologyResponse("B")
    /\ results[2].reasoning = FallbackReasoning
    /\ RankingNames(SortedRankings(results[2].rankings)) = <<"C", "A">>

\* The points the recorded rounds k..Len(rounds) award to name n.
RECURSIVE AwardedInRounds(_, _, _)
AwardedInRounds(rounds, n, k) ==
    IF k > Len(rounds) THEN 0
    ELSE AwardedTo(rounds[k].rankings, scoring, n, 1)
         + AwardedInRounds(rounds, n, k + 1)

\* C16: the ledger holds, for every name, exactly the increments of all the
\* recorded rounds: no recorded round is left unapplied or applied in part,
\* also when applying a round fails.
C16_EveryRecordedRoundFullyApplied ==
    Len(models) >= 3 =>
        \A n \in LedgerNames :
            Total(final_scores, n) = AwardedInRounds(results, n, 1)

\* C17: in every round the contestants are the participants other than the
\* round's judge, in participant-list order: N - 1 of them, the judge not
\* among them, one answer task (and then one answer) for each; the online
\* system's get_participants gives the same list.
C17_ContestantsAreAllButTheJudge ==
    pc \in {"collecting", "judging"} =>
        /\ Len(RoundContestants) = Len(models) - 1
        /\ \A i \in 1..(Len(models) - 1) :
              RoundContestants[i] = models[IF i < judge_idx THEN i ELSE i + 1]
        /\ Judge \notin Range(RoundContestants)
        /\ Len(tasks) = Len(models) - 1
        /\ pc = "judging" =>
              [i \in DOMAIN answers |-> answers[i].model_name] = RoundContestants
        /\ GetParticipants(models, Judge) = RoundContestants

C17_Witness ==
    /\ pc = "judging"
    /\ models = <<"A", "B", "C">>
    /\ judge_idx = 2
    /\ [i \in DOMAIN answers |-> answers[i].model_name] = <<"A", "C">>
    /\ GetParticipants(models, "B") = <<"A", "C">>

\* Item i of the ranking is placed before item j by _update_scores.
PlacedBefore(i, j) ==
    LET sorted == SortedRankings(judgment)
    IN PositionIn(sorted, judgment[i]) < PositionIn(sorted, judgment[j])

\* C18 as claimed: of two contestants with equal declared scores, the one
\* that comes earlier in the participant list takes the better position,
\* whatever the order in which the round's ranking lists them.
C18_TiesInContestantOrder ==
    (pc = "applied" /\ NoDuplicates(RankingNames(judgment))) =>
        \A i, j \in DOMAIN judgment :
            (/\ judgment[i][2] = judgment[j][2]
             /\ PositionIn(models, judgment[i][1]) < PositionIn(models, judgment[j][1]))
            => PlacedBefore(i, j)

\* C18 amended: of two contestants with equal declared scores, the one the
\* round's ranking lists earlier takes the better position, and each is
\* awarded the points of its position.
C18_TiesInListedOrder ==
    (pc = "applied" /\ NoDuplicates(RankingNames(judgment))) =>
        \A i, j \in DOMAIN judgment :
            (judgment[i][2] = judgment[j][2] /\ i < j) =>
                /\ PlacedBefore(i, j)
                /\ \A k \in {i, j} :
                      Total(final_scores, judgment[k][1])
                        - Total(prev_scores, judgment[k][1])
                          = PointsOfPlace(scoring,
                                PositionIn(SortedRankings(judgment), judgment[k]) - 1)

C18_Witness ==
    /\ pc = "applied"
    /\ Len(judgment) = 3
    /\ RankingNames(judgment) = <<"C", "A", "B">>
    /\ judgment[1][2] = judgment[2][2]
    /\ judgment[3][2].v > judgment[1][2].v
    /\ scoring = DefaultScoring
    /\ Total(final_scores, "C") - Total(prev_scores, "C") = 2
    /\ Total(final_scores, "A") - Total(prev_scores, "A") = 1

\* C19: a round recorded from a structured response (it carries the judge's
\* reasoning, not the fallback's) ranks only names of the round's
\* contestants, and no name outside the participants ever receives points.
C19_StructuredResponseNamesValidated ==
    Len(models) >= 3 =>
        /\ \A k \in DOMAIN results :
              results[k].reasoning = DeclaredReasoning =>
                  Range(RankingNames(results[k].rankings))
                      \subseteq (Range(models) \ {results[k].judge_model})
        /\ \A i \in DOMAIN final_scores : final_scores[i][1] \in Range(models)

\* The contestants the scan matched, and those it left unranked, in
\* contestant order.
ScanMatched == {p_out.rankings[k][1] : k \in 1..Cardinality(PositionLines)}

LeftUnranked ==
    LET Unmatched(n) == n \notin ScanMatched
    IN SelectSeq(p_names, Unmatched)

\* C20: after the entries of the scan, which keep the positions 1..m the
\* scan gave them, _parse_judge_response lists every contestant the scan
\* left unranked, in contestant order, with the positions m+1, m+2, ...;
\* no contestant is omitted.  A response that cannot be scanned at all
\* leaves every contestant unranked: they are listed in contestant order.
C20_UnrankedFilledInOrder ==
    pc \in {"parsed", "stored"} =>
        IF p_response.none
        THEN p_out.rankings = [i \in DOMAIN p_names |-> <<p_names[i], i>>]
        ELSE LET m == Cardinality(PositionLines)
             IN /\ Len(p_out.rankings) = m + Len(LeftUnranked)
                /\ \A k \in 1..m : p_out.rankings[k][2] = k
                /\ \A i \in DOMAIN LeftUnranked :
                      p_out.rankings[m + i] = <<LeftUnranked[i], m + i>>
                /\ Range(p_names) \subseteq Range(RankingNames(p_out.rankings))

C20_Witness ==
    /\ pc = "parsed"
    /\ ~p_response.none
    /\ p_names = <<"C", "A", "B">>
    /\ Cardinality(PositionLines) = 1
    /\ p_out.rankings = <<<<"B", 1>>, <<"C", 2>>, <<"A", 3>>>>

\* C21: when a line of the response holds the reasoning marker, whichever
\* line it is, the returned reasoning is the text after that line; when no
\* line does, the returned reasoning is the whole response.
C21_ReasoningIsTextAfterMarker ==
    (pc \in {"parsed", "stored"} /\ ~p_response.none) =>
        IF FirstReasonLine <= Len(ScannedLines)
        THEN p_out.reasoning.lines
                = StripSplit(SubSeq(ScannedLines, FirstReasonLine + 1,
                                    Len(ScannedLines)))
        ELSE p_out.reasoning.lines = p_response.lines

\* The number of the round in progress, counted from 1 over the whole run.
RoundNumber == (q_idx - 1) * Len(models) + judge_idx

LedgerHoldsAllRounds(led, rounds) ==
    \A n \in LedgerNames : Total(led, n) = AwardedInRounds(rounds, n, 1)

\* While the judge of a round is asked, every answer task of the round has
\* ended; answer tasks run only while a round collects; and while round k
\* collects or judges, exactly the k - 1 rounds before it are recorded and,
\* while it collects, applied to the ledger.
StepsInOrder ==
    /\ pc = "judging" =>
          /\ Len(tasks) = Len(models) - 1
          /\ \A i \in DOMAIN tasks : tasks[i].st = "done"
          /\ Len(results) = RoundNumber - 1
    /\ pc = "collecting" =>
          /\ Len(results) = RoundNumber - 1
          /\ LedgerHoldsAllRounds(final_scores, results)
    /\ (\E i \in DOMAIN tasks : tasks[i].st = "running") => pc = "collecting"

\* A round is appended only by the step that interprets the judge's
\* response, and answer tasks of a next round are launched only by a step
\* that has recorded the round before and updated the ledger with it.
StepInOrder ==
    /\ results' # results =>
          /\ pc = "judging"
          /\ Len(results') = Len(results) + 1
          /\ results'[Len(results')].judge_model = Judge
          /\ last_resp' # NoResponse
    /\ (pc # "init" /\ pc' = "collecting" /\ <<q_idx, judge_idx>>' # <<q_idx, judge_idx>>) =>
          /\ pc = "judging"
          /\ Len(results') = RoundNumber
          /\ LedgerHoldsAllRounds(final_scores', results')
          /\ \A i \in DOMAIN tasks' : tasks'[i].st = "running"

\* C22: the steps of a run are strictly ordered: the judge is asked only
\* after all answer tasks of the round have ended, the round is appended
\* and the ledger updated only when the judge's response is interpreted,
\* and no task of round k + 1 starts before round k is in the ledger.
C22_StepsStrictlyOrdered == []StepsInOrder /\ [][StepInOrder]_vars

C22_Witness ==
    /\ pc = "collecting"
    /\ Len(models) = 3
    /\ RoundNumber = 2
    /\ Len(results) = 1
    /\ final_scores # <<>>
    /\ tasks[1].st = "running"
    /\ tasks[2].st = "done"

\* The invocations a run has issued when round k is the round in progress
\* or the last round played: one per contestant of each round begun, one
\* per judge of each round whose answers were gathered.
OnePerContestantAndJudge ==
    pc \in {"collecting", "judging"} =>
        /\ Len(tasks) = Len(models) - 1
        /\ answer_calls = RoundNumber * (Len(models) - 1)
        /\ judge_calls = IF pc = "judging" THEN RoundNumber ELSE RoundNumber - 1

\* C24: each round issues exactly one invocation per contestant and one to
\* the judge, none is re-issued, and a validated run that has ended has made
\* exactly Q*N*(N-1) answer invocations and Q*N judge invocations.
C24_ExactInvocationCounts ==
    /\ OnePerContestantAndJudge
    /\ pc \in {"done", "raised"} =>
          /\ answer_calls = Len(questions) * Len(models) * (Len(models) - 1)
          /\ judge_calls = Len(questions) * Len(models)

\* C25: every run that passes validation eventually finishes, with exactly
\* Q*N rounds recorded, a final report whose total_rounds is Q*N, and the
\* rounds listed in execution order.
C25_ValidatedRunFinishes ==
    (pc = "init" /\ ValidateSetup(models, min_models)) ~>
        /\ pc = "done"
        /\ Len(results) = Len(questions) * Len(models)
        /\ final_result.total_rounds = Len(questions) * Len(models)
        /\ final_result.detailed_results = results
        /\ \A k \in DOMAIN results :
              /\ results[k].question_id = questions[((k - 1) \div Len(models)) + 1]
              /\ results[k].judge_model = models[((k - 1) % Len(models)) + 1]

\* C28: after a completed run of at least three participants with at least
\* one question, the final rankings hold every participant's name exactly
\* once and no other name.
C28_FinalRankingsAreTheParticipants ==
    (pc = "done" /\ Len(models) >= 3 /\ Len(questions) >= 1) =>
        /\ \A i \in DOMAIN models :
              Cardinality({k \in DOMAIN final_result.final_rankings :
                             final_result.final_rankings[k][1] = models[i]}) = 1
        /\ \A k \in DOMAIN final_result.final_rankings :
              final_result.final_rankings[k][1] \in Range(models)

\* The rounds the run in progress has recorded, for a ledger of all rounds.
RoundsOfThisRun ==
    SubSeq(results, Len(results) - Len(questions) * Len(models) + 1, Len(results))

\* C26: the result run_competition returns holds only the rounds and totals
\* of that run, also for a second run on the same object: total_rounds and
\* detailed_results count Q*N rounds, the scores are the points of those
\* rounds, and building the result does not raise.
C26_ResultHoldsOnlyThisRun ==
    /\ pc = "done" =>
          /\ final_result.total_rounds = Len(questions) * Len(models)
          /\ Len(final_result.detailed_results) = Len(questions) * Len(models)
          /\ LedgerHoldsAllRounds(final_result.final_rankings, RoundsOfThisRun)
    /\ ~(pc = "raised" /\ q_idx > Len(questions))

\* C23: within a round every contestant's invocation is started without
\* waiting for another contestant's invocation to end: while a call of
\* process_question collects answers, the invocations of all its
\* participants have been started.
C23_ContestantsStartedTogether ==
    \A k \in DOMAIN calls :
        calls[k].st = "answering" =>
            calls[k].started = Len(GetParticipants(models, calls[k].judge))

\* The sum of the scores of the rows of score_details from row i on that
\* belong to the model.
RECURSIVE DetailPoints(_, _, _)
DetailPoints(details, n, i) ==
    IF i > Len(details) THEN 0
    ELSE (IF details[i].model_name = n THEN details[i].score ELSE 0)
         + DetailPoints(details, n, i + 1)

\* The rounds in which the model was ranked.
RoundsRanked(details, n) ==
    {details[i].qa_record_id : i \in {j \in DOMAIN details : details[j].model_name = n}}

\* C27: after any sequence of processed questions model_scores holds at
\* most one row per model name, whose total_score is the sum of the model's
\* points in score_details and whose total_questions is the number of
\* rounds in which the model was ranked.
C27_OneRowPerModelWithItsTotals ==
    \A n \in Range(models) :
        LET rows == {k \in DOMAIN db_scores.model_scores :
                        db_scores.model_scores[k].model_name = n}
        IN /\ Cardinality(rows) <= 1
           /\ \A k \in rows :
                 /\ db_scores.model_scores[k].total_score
                        = DetailPoints(db_scores.score_details, n, 1)
                 /\ db_scores.model_scores[k].total_questions
                        = Cardinality(RoundsRanked(db_scores.score_details, n))

\* The k-th call of process_question to begin has the participant at index
\* (k - 1) mod N as judge, and the index stands at the number of calls
\* begun, modulo N; calls in progress together took different turns of the
\* rotation: they hold the same index only when they began whole laps of N
\* calls apart.
JudgesInRotation ==
    /\ current_judge_index = Len(calls) % Len(models)
    /\ \A k \in DOMAIN calls :
          /\ calls[k].index = (k - 1) % Len(models)
          /\ calls[k].judge = models[((k - 1) % Len(models)) + 1]
    /\ \A i, j \in DOMAIN calls :
          (i < j /\ Open(calls[i]) /\ Open(calls[j])) =>
              (calls[i].index = calls[j].index <=> (j - i) % Len(models) = 0)

\* A step that begins a call advances the index by one modulo N; no other
\* step, a failure of an answer, of the judge or of the store included,
\* changes it.
IndexAdvancesOncePerCall ==
    current_judge_index' =
        IF Len(calls') = Len(calls) + 1
        THEN (current_judge_index + 1) % Len(models)
        ELSE current_judge_index

\* C29: each call of process_question takes the participant at
\* current_judge_index as judge and advances the index by exactly one
\* modulo N, also when answering, judging or the store fails: over any
\* interleaving of calls the judges are participants[0], participants[1],
\* ... cyclically, and no two calls in progress took the same turn.
C29_JudgeRotationOnline == []JudgesInRotation /\ [][IndexAdvancesOncePerCall]_vars

C29_Witness ==
    /\ pc = "online"
    /\ Len(calls) = Len(models) + 1
    /\ calls[2].st = "returned" /\ ~calls[2].success
    /\ calls[3].st = "answering" /\ calls[3].ended = 1 /\ ~calls[3].answers[1][2]
    /\ calls[4].st = "judging"
    /\ calls[4].judge = models[1]

\* C30: after generate_questions the question list is not empty and its
\* ids are pairwise distinct, whatever the generator returned and whatever
\* the preset bank yielded.
C30_QuestionsNeverEmptyIdsDistinct ==
    pc = "generated" =>
        /\ questions # <<>>
        /\ NoDuplicates(questions)

====
